---- MODULE Spec2Model ----
(***************************************************************************)
(* The pipelined streaming protocol engine of tokio-proto                  *)
(* (src/streaming/pipeline/advanced.rs): Pipeline<T>, driven by repeated   *)
(* calls of Future::poll ("advance"), together with its environment: the   *)
(* framed transport, the Dispatch collaborator, the consumer of inbound    *)
(* bodies and the outbound body streams.                                    *)
(*                                                                         *)
(* One call of poll() is the path  idle -> read -> (in_body |              *)
(* dispatch_poll)* -> flush -> idle | done.  The engine is single          *)
(* threaded; the consumer of an inbound body is another task and may run   *)
(* between any two steps.                                                  *)
(***************************************************************************)
EXTENDS Integers, Sequences, FiniteSets, TLC

\* Bounds of the model.
MaxIn == 3        \* inbound frames the transport yields
MaxOut == 2       \* outbound messages (or errors) the collaborator produces
MaxChunks == 1    \* chunks of one outbound body stream

VARIABLES
    transport_open,       \* Pipeline.transport_open
    request_sender_open,  \* Pipeline.request_sender_open
    buf,                  \* slot of Pipeline.dispatch (BufferOne), <<>> or <<frame>>
    out_body,             \* Pipeline.out_body: sender of the open inbound body
    in_body,              \* Pipeline.in_body: 0 (None) or index in outMsgs
    is_flushed,           \* Pipeline.is_flushed
    pc,                   \* position inside Future::poll
    result,               \* what the last poll() returned
    inFrames,             \* frames the transport has yielded, in order
    eos,                  \* the transport has yielded None (end of stream)
    readAfterEos,         \* the transport was polled after it yielded None
    wire,                 \* frames the transport sink has accepted
    sinkPending,          \* the transport holds accepted, unflushed frames
    emitted,              \* frames accepted by the single-slot buffer
    dispatched,           \* messages handed to Dispatch::dispatch
    rx,                   \* body receivers, one entry per dispatched message
    in_flight,            \* dispatched requests not yet answered
    outMsgs,              \* what Dispatch::poll has produced
    reqNone,              \* Dispatch::poll has returned Ready(None)
    pollAfterNone         \* Dispatch::poll was called after Ready(None)

vars == <<transport_open, request_sender_open, buf, out_body, in_body,
          is_flushed, pc, result, inFrames, eos, readAfterEos, wire,
          sinkPending, emitted, dispatched, rx, in_flight, outMsgs, reqNone,
          pollAfterNone>>

engine == <<transport_open, request_sender_open, buf, out_body, in_body,
            is_flushed>>
inbound == <<inFrames, eos, readAfterEos>>
sink == <<wire, sinkPending>>
collab == <<dispatched, in_flight, outMsgs, reqNone, pollAfterNone>>

(***************************************************************************)
(* Frames and messages                                                     *)
(***************************************************************************)
None == 0

MessageFrame(h, b) == [kind |-> "Message", val |-> h, body |-> b]
BodyFrame(c) == [kind |-> "Body", val |-> c, body |-> FALSE]
BodyEnd == [kind |-> "BodyEnd", val |-> 0, body |-> FALSE]
ErrorFrame(e) == [kind |-> "Error", val |-> e, body |-> FALSE]

NoSender == [some |-> FALSE, rx |-> 0, slot |-> <<>>]
NewSender(i) == [some |-> TRUE, rx |-> i, slot |-> <<>>]

NoReceiver == [body |-> FALSE, alive |-> FALSE, chan |-> <<>>, got |-> <<>>,
               ended |-> FALSE]
NewReceiver == [body |-> TRUE, alive |-> TRUE, chan |-> <<>>, got |-> <<>>,
                ended |-> FALSE]

(***************************************************************************)
(* The single-slot buffer (crate::buffer_one::BufferOne)                   *)
(***************************************************************************)
BufferOnePollReady(slot) == slot = <<>>

BufferOneStartSend(slot, item) ==
    IF slot = <<>>
    THEN [res |-> "Ready", slot |-> <<item>>]
    ELSE [res |-> "NotReady", slot |-> slot]

\* The offer of the body channel's sender (one chunk of buffering).
SenderStartSend(r) ==
    IF ~r.alive THEN "Closed"
    ELSE IF r.chan = <<>> THEN "Ready" ELSE "NotReady"

(***************************************************************************)
(* Init                                                                    *)
(***************************************************************************)
Init ==
    /\ transport_open = TRUE
    /\ request_sender_open = TRUE
    /\ buf = <<>>
    /\ out_body = NoSender
    /\ in_body = None
    /\ is_flushed = TRUE
    /\ pc = "idle"
    /\ result = "none"
    /\ inFrames = <<>>
    /\ eos = FALSE
    /\ readAfterEos = FALSE
    /\ wire = <<>>
    /\ sinkPending = FALSE
    /\ emitted = <<>>
    /\ dispatched = <<>>
    /\ rx = <<>>
    /\ in_flight = 0
    /\ outMsgs = <<>>
    /\ reqNone = FALSE
    /\ pollAfterNone = FALSE

Fail(kind) ==
    /\ pc' = "done"
    /\ result' = kind

\* Future::poll, entry: tick the transport and start reading.
Poll ==
    /\ pc = "idle"
    /\ pc' = "read"
    /\ UNCHANGED <<engine, result, inbound, sink, emitted, rx, collab>>

(***************************************************************************)
(* Inbound: read_out_frames and process_out_frame                          *)
(***************************************************************************)
\* Variant: the loop does not look at transport_open.
ReadLoopCond_Always == TRUE

\* `while self.transport_open`
ReadLoopCond == transport_open

\* Variant: the readiness of the sender's slot is not probed.
check_out_body_stream_NoProbe == TRUE

\* "Return true if the pipeliner can process new outbound frames"
check_out_body_stream ==
    IF out_body.some THEN BufferOnePollReady(out_body.slot) ELSE TRUE

\* The message process_out_frame hands to dispatch() for a Message frame.
OutMessage(frame) == [head |-> frame.val, body |-> frame.body]

\* Variant: a message without body leaves the previous sender in place.
OutBodyFor_KeepsPrevious(frame, i) ==
    IF frame.body THEN NewSender(i) ELSE out_body

\* The sender process_out_frame installs for a Message frame; receiver i is
\* the one created with it.
OutBodyFor(frame, i) == IF frame.body THEN NewSender(i) ELSE NoSender

\* Dispatch::dispatch: the collaborator takes the message (and the body
\* receiver that comes with it); ok = FALSE is a dispatch error.
dispatch(msg, ok) ==
    /\ dispatched' = Append(dispatched, msg)
    /\ rx' = Append(rx, IF msg.body /\ ok THEN NewReceiver
                        ELSE [NoReceiver EXCEPT !.body = msg.body])
    /\ in_flight' = IF ok THEN in_flight + 1 ELSE in_flight
    /\ IF ok THEN pc' = "read" /\ UNCHANGED result ELSE Fail("IoError")

\* body.start_send(Ok(chunk)) on the BufferOne around the sender.
process_out_body_chunk(chunk) ==
    IF out_body.some
    THEN LET r == BufferOneStartSend(out_body.slot, chunk) IN
         IF r.res = "Ready"
         THEN /\ out_body' = [out_body EXCEPT !.slot = r.slot]
              /\ pc' = "read"
              /\ UNCHANGED result
         ELSE /\ UNCHANGED out_body      \* unreachable!()
              /\ Fail("panic_unreachable")
    ELSE /\ UNCHANGED out_body           \* interest canceled
         /\ pc' = "read"
         /\ UNCHANGED result

\* Variant: an inbound Error frame is skipped and reading goes on.
ProcessErrorFrame_Skips == pc' = "read" /\ UNCHANGED result

\* What an inbound Error frame does to the call.
ProcessErrorFrame == Fail("BrokenPipe")

process_out_frame(frame, ok) ==
    CASE frame.kind = "Message" ->
           /\ out_body' = OutBodyFor(frame, Len(dispatched) + 1)
           /\ dispatch(OutMessage(frame), ok)
           /\ UNCHANGED transport_open
      [] frame.kind = "Body" ->
           /\ process_out_body_chunk(frame.val)
           /\ UNCHANGED <<transport_open, dispatched, rx, in_flight>>
      [] frame.kind = "BodyEnd" ->
           /\ out_body' = NoSender
           /\ pc' = "read"
           /\ UNCHANGED <<transport_open, dispatched, rx, in_flight, result>>
      [] frame.kind = "Error" ->
           /\ ProcessErrorFrame
           /\ UNCHANGED <<transport_open, out_body, dispatched, rx, in_flight>>

\* Variant: a new message is polled for while a body is still open.
write_in_frames_SkipsBody(b, ib) ==
    IF BufferOnePollReady(b) THEN "dispatch_poll" ELSE "flush"

\* Variant: the loop does not wait for the single slot to be ready.
write_in_frames_NoReady(b, ib) ==
    IF ib # None THEN "in_body" ELSE "dispatch_poll"

\* Top of the loop of write_in_frames, `while self.dispatch.poll_ready()`,
\* and the entry of write_in_body: where the call goes with slot b and
\* in_body ib.
write_in_frames(b, ib) ==
    IF BufferOnePollReady(b)
    THEN (IF ib # None THEN "in_body" ELSE "dispatch_poll")
    ELSE "flush"

(***************************************************************************)
(* The adapter of the body-less server (simple/pipeline/server.rs)         *)
(***************************************************************************)
\* LiftService::call: a request without body goes to the wrapped service
\* (one more call in flight); a request with body panics before any call,
\* and its body receiver is dropped with it.
LiftServiceCall(msg, ok) ==
    IF msg.body
    THEN /\ dispatched' = Append(dispatched, msg)
         /\ rx' = Append(rx, [NoReceiver EXCEPT !.body = TRUE])
         /\ UNCHANGED in_flight
         /\ Fail("panic_bodies")
    ELSE dispatch(msg, ok)

\* process_out_frame when dispatch() ends in LiftService::call.
LiftProcessOutFrame(frame, ok) ==
    IF frame.kind = "Message"
    THEN /\ out_body' = OutBodyFor(frame, Len(dispatched) + 1)
         /\ LiftServiceCall(OutMessage(frame), ok)
         /\ UNCHANGED transport_open
    ELSE process_out_frame(frame, ok)

\* What the future of the wrapped service resolves to.
ServiceOutcomes == {"Item", "Err"}

\* Variant: the item is wrapped as a message with a body.
LiftFuturePoll_WithBody(o) ==
    IF o = "Err" THEN "Err" ELSE "WithBody"

\* LiftFuture::poll: try_ready! passes the error on, the item is wrapped
\* as Message::WithoutBody.
LiftFuturePoll(o) ==
    IF o = "Err" THEN "Err" ELSE "WithoutBody"

\* The frames the transport can yield next; a frame carries its arrival
\* index as head or chunk value.
TransportFrames ==
    IF Len(inFrames) < MaxIn
    THEN LET n == Len(inFrames) + 1 IN
         {MessageFrame(n, TRUE), MessageFrame(n, FALSE), BodyFrame(n),
          BodyEnd, ErrorFrame(n)}
    ELSE {}

\* One iteration of the loop of read_out_frames; lifted says whether the
\* collaborator behind dispatch() is LiftService.
ReadOutFramesOf(lifted) ==
    /\ pc = "read"
    /\ IF ReadLoopCond /\ check_out_body_stream
       THEN /\ readAfterEos' = (readAfterEos \/ eos)
            /\ \/ \* transport().poll() is NotReady
                  /\ pc' = write_in_frames(buf, in_body)
                  /\ UNCHANGED <<transport_open, out_body, result, inFrames,
                                 eos, dispatched, rx, in_flight>>
               \/ \* transport().poll() fails
                  /\ Fail("IoError")
                  /\ UNCHANGED <<transport_open, out_body, inFrames, eos,
                                 dispatched, rx, in_flight>>
               \/ \* Ready(None)
                  /\ transport_open' = FALSE
                  /\ eos' = TRUE
                  /\ pc' = "read"
                  /\ UNCHANGED <<out_body, result, inFrames, dispatched, rx,
                                 in_flight>>
               \/ \* Ready(Some(frame))
                  \E frame \in TransportFrames, ok \in BOOLEAN :
                     /\ (frame.kind # "Message") => ok
                     /\ inFrames' = Append(inFrames, frame)
                     /\ IF lifted THEN LiftProcessOutFrame(frame, ok)
                        ELSE process_out_frame(frame, ok)
                     /\ UNCHANGED eos
       ELSE /\ pc' = write_in_frames(buf, in_body)
            /\ UNCHANGED <<transport_open, out_body, result, inbound,
                           dispatched, rx, in_flight>>
    /\ UNCHANGED <<request_sender_open, buf, in_body, is_flushed, sink,
                   emitted, outMsgs, reqNone, pollAfterNone>>

ReadOutFrames == ReadOutFramesOf(FALSE)

(***************************************************************************)
(* Outbound: write_in_frames, write_in_body, write_in_message              *)
(***************************************************************************)
\* assert_send: the frame goes into the single slot, or the call panics.
assert_send(item) ==
    LET r == BufferOneStartSend(buf, item) IN
    IF r.res = "Ready"
    THEN /\ buf' = r.slot
         /\ emitted' = Append(emitted, item)
         /\ UNCHANGED result
    ELSE /\ UNCHANGED <<buf, emitted>>
         /\ Fail("panic_send")

SendAccepted(item) == BufferOneStartSend(buf, item).res = "Ready"

ChunkValue(m, k) == 10 * m + k

\* One iteration of the loop of write_in_body (in_body is some).
WriteInBody ==
    /\ pc = "in_body"
    /\ IF ~BufferOnePollReady(buf)
       THEN /\ pc' = "flush"
            /\ UNCHANGED <<buf, in_body, result, emitted, outMsgs>>
       ELSE \/ \* Ready(Some(chunk))
               /\ Len(outMsgs[in_body].chunks) < MaxChunks
               /\ LET c == ChunkValue(in_body,
                                      Len(outMsgs[in_body].chunks) + 1) IN
                  /\ outMsgs' = [outMsgs EXCEPT ![in_body].chunks =
                                                  Append(@, c)]
                  /\ assert_send(BodyFrame(c))
                  /\ IF SendAccepted(BodyFrame(c)) THEN pc' = "in_body"
                     ELSE TRUE
               /\ UNCHANGED in_body
            \/ \* Ready(None)
               /\ outMsgs' = [outMsgs EXCEPT ![in_body].ended = TRUE]
               /\ assert_send(BodyEnd)
               /\ IF SendAccepted(BodyEnd)
                  THEN in_body' = None /\ pc' = "dispatch_poll"
                  ELSE UNCHANGED in_body
            \/ \* NotReady
               /\ pc' = "flush"
               /\ UNCHANGED <<buf, in_body, result, emitted, outMsgs>>
            \/ \* Err(_): unimplemented!()
               /\ Fail("panic_unimplemented")
               /\ UNCHANGED <<buf, in_body, emitted, outMsgs>>
    /\ UNCHANGED <<transport_open, request_sender_open, out_body, is_flushed,
                   inbound, sink, dispatched, rx, in_flight, reqNone,
                   pollAfterNone>>

\* Variant: the head frame never announces a body.
HeadFrame_NoBodyFlag(m) ==
    IF m.kind = "Err" THEN ErrorFrame(m.head)
    ELSE MessageFrame(m.head, FALSE)

\* The frame write_in_message emits for what Dispatch::poll produced.
HeadFrame(m) ==
    IF m.kind = "Err" THEN ErrorFrame(m.head)
    ELSE MessageFrame(m.head, m.kind = "WithBody")

\* Variant: the body stream of a WithBody message is not kept.
InBodyFor_DropsBody(m, i) ==
    IF m.kind = "Err" THEN in_body ELSE None

\* in_body after write_in_message; i is the index of the message in outMsgs.
InBodyFor(m, i) ==
    CASE m.kind = "WithBody" -> i
      [] m.kind = "WithoutBody" -> None
      [] OTHER -> in_body

write_in_message(m, i) ==
    /\ assert_send(HeadFrame(m))
    /\ IF SendAccepted(HeadFrame(m))
       THEN IF m.kind # "Err" /\ in_body # None
            THEN /\ Fail("panic_assert")    \* assert!(self.in_body.is_none())
                 /\ UNCHANGED in_body
            ELSE /\ in_body' = InBodyFor(m, i)
                 /\ pc' = write_in_frames(buf', in_body')
       ELSE UNCHANGED in_body

NewOutMsg(k, h) == [kind |-> k, head |-> h, chunks |-> <<>>, ended |-> FALSE]

\* request_sender_open after Dispatch::poll returned Ready(None).
AfterReadyNone == FALSE

\* `self.dispatch.get_mut().inner.poll()?` and the match on its result;
\* kinds are the messages the collaborator can produce.
DispatchPollOf(kinds) ==
    /\ pc = "dispatch_poll"
    /\ pollAfterNone' = (pollAfterNone \/ reqNone)
    /\ \/ \* Ready(Some(Ok(message))) or Ready(Some(Err(error)))
          \E k \in kinds :
             /\ in_flight > 0
             /\ Len(outMsgs) < MaxOut
             /\ LET i == Len(outMsgs) + 1
                    m == NewOutMsg(k, i) IN
                /\ outMsgs' = Append(outMsgs, m)
                /\ in_flight' = in_flight - 1
                /\ write_in_message(m, i)
             /\ UNCHANGED <<request_sender_open, reqNone>>
       \/ \* Ready(None)
          /\ request_sender_open' = AfterReadyNone
          /\ reqNone' = TRUE
          /\ pc' = "flush"
          /\ UNCHANGED <<buf, in_body, result, emitted, in_flight, outMsgs>>
       \/ \* NotReady
          /\ pc' = "flush"
          /\ UNCHANGED <<request_sender_open, buf, in_body, result, emitted,
                         in_flight, outMsgs, reqNone>>
       \/ \* Err(io)
          /\ Fail("IoError")
          /\ UNCHANGED <<request_sender_open, buf, in_body, emitted,
                         in_flight, outMsgs, reqNone>>
    /\ UNCHANGED <<transport_open, out_body, is_flushed, inbound, sink,
                   dispatched, rx>>

DispatchPoll == DispatchPollOf({"WithoutBody", "WithBody", "Err"})

(***************************************************************************)
(* flush, is_done and the return of poll()                                 *)
(***************************************************************************)
\* Variant: a closed channel does not clear out_body.
FlushOutBody_KeepsClosed(res, drained) ==
    IF res = "Ready" THEN drained ELSE out_body

\* Variant: out_body is cleared whenever its flush is not ready.
FlushOutBody_ClearsNotReady(res, drained) ==
    CASE res = "Ready" -> drained
      [] res = "Idle" -> out_body
      [] OTHER -> NoSender

\* out_body after out_body.poll_complete() returned res.
FlushOutBody(res, drained) ==
    CASE res = "Closed" -> NoSender
      [] res = "Ready" -> drained
      [] OTHER -> out_body

\* Variant: is_flushed is taken from the sink alone, whatever the slot holds.
IsFlushedAfter_IgnoresSlot(emptied, ready) == ready

\* Variant: the readiness of the flush is stored inverted.
IsFlushedAfter_Inverted(emptied, ready) == ~(emptied /\ ready)

\* `self.is_flushed = self.dispatch.poll_complete()?.is_ready()`: the slot
\* was drained (emptied) and the transport's flush is ready.
IsFlushedAfter(emptied, ready) == emptied /\ ready

has_in_flight == in_flight > 0

\* Variant: the termination check forgets the requests in flight.
is_done_IgnoresInFlight ==
    (~transport_open \/ ~request_sender_open) /\ is_flushed

is_done ==
    (~transport_open \/ ~request_sender_open) /\ is_flushed /\ ~has_in_flight

\* flush(), then the end of poll(): completed if is_done(), else pending.
Flush ==
    /\ pc = "flush"
    /\ UNCHANGED <<transport_open, request_sender_open, in_body, inbound,
                   emitted, collab>>
    /\ \/ \* self.dispatch.poll_complete()? fails
          /\ Fail("IoError")
          /\ UNCHANGED <<buf, out_body, is_flushed, sink, rx>>
       \/ \E accept \in BOOLEAN, flushed \in BOOLEAN :
             LET drain == buf # <<>> /\ accept
                 pending == sinkPending \/ drain
                 ready == ~pending \/ flushed
                 i == out_body.rx
                 res == IF out_body.some /\ out_body.slot # <<>>
                        THEN SenderStartSend(rx[i]) ELSE "Idle"
             IN
             /\ buf' = IF drain THEN <<>> ELSE buf
             /\ wire' = IF drain THEN wire \o buf ELSE wire
             /\ sinkPending' = (pending /\ ~ready)
             /\ is_flushed' = IsFlushedAfter(buf' = <<>>, ready)
             /\ out_body' = FlushOutBody(res, [out_body EXCEPT !.slot = <<>>])
             /\ rx' = IF res = "Ready"
                      THEN [rx EXCEPT ![i].chan = out_body.slot]
                      ELSE rx
             /\ IF is_done'
                THEN pc' = "done" /\ result' = "completed"
                ELSE pc' = "idle" /\ result' = "pending"

(***************************************************************************)
(* The consumer of an inbound body (the receiver side of Body::pair)       *)
(***************************************************************************)
SenderAlive(i) == out_body.some /\ out_body.rx = i

RxRecv(i) ==
    /\ rx[i].alive /\ rx[i].chan # <<>>
    /\ rx' = [rx EXCEPT ![i].got = @ \o rx[i].chan, ![i].chan = <<>>]
    /\ UNCHANGED <<engine, pc, result, inbound, sink, emitted, collab>>

RxEnd(i) ==
    /\ rx[i].alive /\ ~rx[i].ended
    /\ rx[i].chan = <<>> /\ ~SenderAlive(i)
    /\ rx' = [rx EXCEPT ![i].ended = TRUE]
    /\ UNCHANGED <<engine, pc, result, inbound, sink, emitted, collab>>

RxDrop(i) ==
    /\ rx[i].alive /\ ~rx[i].ended
    /\ rx' = [rx EXCEPT ![i].alive = FALSE, ![i].chan = <<>>]
    /\ UNCHANGED <<engine, pc, result, inbound, sink, emitted, collab>>

Consumer == \E i \in DOMAIN rx : RxRecv(i) \/ RxEnd(i) \/ RxDrop(i)

Next ==
    \/ Poll
    \/ ReadOutFrames
    \/ WriteInBody
    \/ DispatchPoll
    \/ Flush
    \/ Consumer

Spec == Init /\ [][Next]_vars

(***************************************************************************)
(* The engine driven through LiftService (bind_server of the body-less     *)
(* server).  write_in_body and the body consumers are no steps of it: no   *)
(* body stream and no live receiver exists (C19 checks pc # "in_body").    *)
(***************************************************************************)
LiftReadOutFrames == ReadOutFramesOf(TRUE)

LiftDispatchPoll == DispatchPollOf({LiftFuturePoll(o) : o \in ServiceOutcomes})

LiftNext ==
    \/ Poll
    \/ LiftReadOutFrames
    \/ LiftDispatchPoll
    \/ Flush

LiftSpec == Init /\ [][LiftNext]_vars

(***************************************************************************)
(* Helpers of the properties                                               *)
(***************************************************************************)
Last(s) == s[Len(s)]

IsPrefix(s, t) == Len(s) <= Len(t) /\ \A k \in 1..Len(s) : s[k] = t[k]

IsMessage(f) == f.kind = "Message"

\* The Message frames of a frame sequence, as the messages they stand for.
MessagesOf(frames) ==
    LET ms == SelectSeq(frames, IsMessage) IN
    [k \in 1..Len(ms) |-> [head |-> ms[k].val, body |-> ms[k].body]]

\* An inbound body is open before position k of inFrames.
OpenBefore(k) ==
    \E j \in 1..(k - 1) :
       /\ inFrames[j].kind = "Message" /\ inFrames[j].body
       /\ \A l \in (j + 1)..(k - 1) : inFrames[l].kind = "Body"

\* The inbound frames follow the grammar: body frames only inside an open
\* body, a Message only when no body is open.
GrammarOK ==
    \A k \in 1..Len(inFrames) :
       /\ inFrames[k].kind \in {"Body", "BodyEnd"} => OpenBefore(k)
       /\ inFrames[k].kind = "Message" => ~OpenBefore(k)

\* The last position of the run of chunk frames that follows position j.
RunEnd(j) ==
    CHOOSE e \in j..Len(inFrames) :
       /\ \A l \in (j + 1)..e : inFrames[l].kind = "Body"
       /\ e < Len(inFrames) => inFrames[e + 1].kind # "Body"

\* The chunks of the message whose head is frame j, and whether its
\* Body{chunk=none} has arrived.
ChunksOf(j) == [k \in 1..(RunEnd(j) - j) |-> inFrames[j + k].val]
Terminated(j) ==
    RunEnd(j) < Len(inFrames) /\ inFrames[RunEnd(j) + 1].kind = "BodyEnd"

\* The expansion of one outbound message, and of a sequence of them.
ExpansionOf(m) ==
    CASE m.kind = "Err" -> <<[kind |-> "Error", val |-> m.head, body |-> FALSE]>>
      [] m.kind = "WithoutBody" ->
           <<[kind |-> "Message", val |-> m.head, body |-> FALSE]>>
      [] m.kind = "WithBody" ->
           <<[kind |-> "Message", val |-> m.head, body |-> TRUE]>>
           \o [k \in 1..Len(m.chunks) |->
                 [kind |-> "Body", val |-> m.chunks[k], body |-> FALSE]]
           \o (IF m.ended
               THEN <<[kind |-> "BodyEnd", val |-> 0, body |-> FALSE]>>
               ELSE <<>>)

RECURSIVE Expansion(_)
Expansion(ms) ==
    IF ms = <<>> THEN <<>>
    ELSE Expansion(SubSeq(ms, 1, Len(ms) - 1)) \o ExpansionOf(Last(ms))

\* A step of the engine that reads one more inbound frame.
ReadsFrame == Len(inFrames') = Len(inFrames) + 1

\* A step in which Dispatch::poll produces one more outbound message.
Produces == Len(outMsgs') = Len(outMsgs) + 1

(***************************************************************************)
(* C1: the messages handed to dispatch() are, one for one and in order,    *)
(* the inbound Message frames (WithBody exactly when body = true), each    *)
(* WithBody comes with its own receiver, and when the inbound frames       *)
(* follow the grammar every live receiver has been given exactly the       *)
(* chunks of its message in arrival order (none lost, none added), and     *)
(* sees end-of-sequence only after the Body{chunk=none} of its message.    *)
(***************************************************************************)
C1_InboundCorrespondence ==
    /\ dispatched = MessagesOf(inFrames)
    /\ Len(rx) = Len(dispatched)
    /\ \A i \in DOMAIN rx : rx[i].body = dispatched[i].body
    /\ GrammarOK =>
         \A i \in DOMAIN rx :
            (rx[i].body /\ rx[i].alive) =>
               LET j == dispatched[i].head
                   slot == IF SenderAlive(i) THEN out_body.slot ELSE <<>>
               IN /\ rx[i].got \o rx[i].chan \o slot = ChunksOf(j)
                  /\ rx[i].ended => (Terminated(j) /\ rx[i].got = ChunksOf(j))

C1_Witness ==
    /\ GrammarOK
    /\ \E i \in DOMAIN rx :
          rx[i].alive /\ rx[i].ended /\ Len(rx[i].got) >= 1

C3_TerminationPredicate ==
    [][(pc = "flush" /\ pc' # "flush" /\ result' # "IoError") =>
          /\ result' \in {"completed", "pending"}
          /\ (result' = "completed") <=>
                /\ (~transport_open' \/ ~request_sender_open')
                /\ is_flushed'
                /\ in_flight' = 0
          /\ (pc' = "done") <=> (result' = "completed")]_vars

C3_Witness ==
    /\ result = "completed"
    /\ transport_open /\ ~request_sender_open
    /\ Len(wire) >= 1

(***************************************************************************)
(* C4: poll() never returns completed while an outbound body is open       *)
(* (in_body is some).                                                      *)
(***************************************************************************)
C4_BodyFinishedBeforeCompleted ==
    result = "completed" => in_body = None

(***************************************************************************)
(* C5: every frame offered to the single-slot buffer is accepted: the      *)
(* panic of assert_send is never reached.                                  *)
(***************************************************************************)
C5_SendAlwaysAccepted ==
    result # "panic_send"

(***************************************************************************)
(* C6: once Dispatch::poll has returned Ready(None), request_sender_open   *)
(* is false for good and Dispatch::poll is never called again.             *)
(***************************************************************************)
C6_NoPollAfterReadyNone ==
    /\ reqNone => ~request_sender_open
    /\ ~pollAfterNone

(***************************************************************************)
(* C7: once the transport has yielded end-of-stream, transport_open is     *)
(* false for good and the transport is never polled for a frame again; a   *)
(* later read phase changes nothing and hands over to the outbound side.   *)
(***************************************************************************)
C7_NoReadAfterEos ==
    /\ [](eos => ~transport_open)
    /\ [](~readAfterEos)
    /\ [][(eos /\ pc = "read" /\ pc' # "read") =>
             /\ pc' \in {"in_body", "dispatch_poll", "flush"}
             /\ UNCHANGED <<engine, result, inbound, sink, emitted, rx,
                            collab>>]_vars

C7_Witness ==
    /\ eos /\ ~transport_open
    /\ pc = "dispatch_poll"
    /\ result = "pending"
    /\ in_flight > 0

(***************************************************************************)
(* C8: when the transport yields an Error frame the call returns the       *)
(* BrokenPipe error at once: that step dispatches nothing, polls the       *)
(* collaborator for nothing, emits nothing and flushes nothing, nothing of *)
(* the engine runs after it, and the messages read before the error frame  *)
(* have all been dispatched.                                               *)
(***************************************************************************)
C8_ErrorFrameIsFatal ==
    /\ [][(ReadsFrame /\ Last(inFrames').kind = "Error") =>
             /\ pc' = "done" /\ result' = "BrokenPipe"
             /\ dispatched = MessagesOf(inFrames)
             /\ UNCHANGED <<engine, sink, emitted, rx, collab>>]_vars
    /\ [][pc = "done" =>
             UNCHANGED <<engine, pc, result, inbound, sink, emitted,
                         collab>>]_vars

C8_Witness ==
    /\ result = "BrokenPipe"
    /\ Len(dispatched) >= 2

(***************************************************************************)
(* C9: when Dispatch::poll returns Ready(Some(Err(e))) the engine emits    *)
(* exactly one Error frame for it, leaves in_body, out_body,               *)
(* transport_open and request_sender_open alone, does not fail the call    *)
(* and goes back to the top of the outbound loop.                          *)
(***************************************************************************)
C9_ProductionErrorIsNotFatal ==
    [][(Produces /\ Last(outMsgs').kind = "Err") =>
          /\ emitted' = Append(emitted, ErrorFrame(Last(outMsgs').head))
          /\ pc' # "done"
          /\ UNCHANGED <<in_body, out_body, transport_open,
                         request_sender_open, result>>]_vars

(***************************************************************************)
(* C10: chunks of an inbound body whose receiver was dropped are discarded *)
(* quietly: reading a Body frame never fails the call and never calls      *)
(* dispatch(), a dropped receiver is given nothing, a flush that finds the *)
(* channel closed clears out_body, Body{chunk=none} leaves out_body none,  *)
(* and the next Message frame is dispatched, with a fresh sender if it has *)
(* a body, whatever happened to the previous receiver.                     *)
(***************************************************************************)
C10_DroppedReceiverTolerated ==
    /\ [](\A i \in DOMAIN rx : ~rx[i].alive => rx[i].chan = <<>>)
    /\ [][(ReadsFrame /\ Last(inFrames').kind \in {"Body", "BodyEnd"}) =>
             /\ pc' = "read"
             /\ UNCHANGED <<dispatched, rx, result>>
             /\ Last(inFrames').kind = "BodyEnd" => out_body' = NoSender
             /\ ~out_body.some => out_body' = NoSender]_vars
    /\ [][(pc = "flush" /\ pc' # "flush" /\ result' # "IoError"
           /\ out_body.some /\ out_body.slot # <<>>
           /\ ~rx[out_body.rx].alive) => out_body' = NoSender]_vars
    /\ [][(ReadsFrame /\ Last(inFrames').kind = "Message") =>
             /\ dispatched' = Append(dispatched,
                                     [head |-> Last(inFrames').val,
                                      body |-> Last(inFrames').body])
             /\ out_body'.some = Last(inFrames').body
             /\ out_body'.slot = <<>>
             /\ out_body'.some => out_body'.rx = Len(dispatched')]_vars

C10_Witness ==
    /\ Len(inFrames) = 3
    /\ inFrames[1].kind = "Message" /\ inFrames[1].body
    /\ inFrames[2].kind = "Body" /\ inFrames[3].kind = "Body"
    /\ ~rx[1].alive /\ ~rx[1].ended
    /\ out_body = NoSender
    /\ pc = "idle" /\ result = "pending"

(***************************************************************************)
(* C11: the transport is never polled for a frame while an inbound body is *)
(* open and the slot of its sender is occupied, so the offer of a chunk    *)
(* never reports not-ready and unreachable!() is never reached.            *)
(***************************************************************************)
SenderSlotFull == out_body.some /\ out_body.slot # <<>>

C11_NoReadWhileSenderFull ==
    /\ [](result # "panic_unreachable")
    /\ [][(ReadsFrame \/ eos' # eos) => ~SenderSlotFull]_vars
    /\ [][(pc = "read" /\ SenderSlotFull /\ pc' # "read") =>
             /\ pc' \in {"in_body", "dispatch_poll", "flush"}
             /\ UNCHANGED <<engine, result, inbound, rx, collab>>]_vars

C11_Witness ==
    /\ pc = "read" /\ transport_open
    /\ SenderSlotFull
    /\ rx[out_body.rx].alive
    /\ Len(inFrames) < MaxIn

(***************************************************************************)
(* C12: Dispatch::poll is called only when in_body is none, the assertion  *)
(* assert!(in_body.is_none()) of write_in_message never fails, and at most *)
(* one outbound body is open: every message before the last has its body   *)
(* ended.                                                                  *)
(***************************************************************************)
C12_PollOnlyWithoutOpenBody ==
    /\ pc = "dispatch_poll" => in_body = None
    /\ result # "panic_assert"
    /\ in_body # None =>
          /\ in_body = Len(outMsgs)
          /\ outMsgs[in_body].kind = "WithBody" /\ ~outMsgs[in_body].ended
    /\ \A i \in 1..Len(outMsgs) :
          (outMsgs[i].kind = "WithBody" /\ ~outMsgs[i].ended) =>
             i = Len(outMsgs)

C12_Witness ==
    /\ pc = "dispatch_poll"
    /\ result = "pending"
    /\ Len(outMsgs) >= 1
    /\ outMsgs[1].kind = "WithBody" /\ outMsgs[1].ended
    /\ Len(outMsgs[1].chunks) >= 1
    /\ buf = <<>>
    /\ in_flight > 0

(***************************************************************************)
(* C13: while the transport sink has accepted no frame, no result of       *)
(* Dispatch::poll is taken and emitted, the calls return pending and none  *)
(* of them panics.  A sink that never accepts is a run in which            *)
(* SinkNeverAccepted holds throughout.                                     *)
(***************************************************************************)
SinkNeverAccepted == wire = <<>>

Panics == {"panic_send", "panic_unreachable", "panic_unimplemented",
           "panic_assert"}

\* As claimed: nothing at all is taken from the collaborator.
C13_NothingTakenWhileSinkStalls ==
    SinkNeverAccepted => outMsgs = <<>> /\ emitted = <<>>

\* Amended: one result is taken, its head frame fills the single slot and
\* stays there; nothing more is taken, the call that leaves a frame in the
\* slot returns pending, and no call panics.
C13_OneFrameTakenWhileSinkStalls ==
    SinkNeverAccepted =>
       /\ Len(outMsgs) <= 1
       /\ emitted = buf
       /\ \A i \in 1..Len(outMsgs) :
             outMsgs[i].chunks = <<>> /\ ~outMsgs[i].ended
       /\ result \notin Panics
       /\ (buf # <<>> /\ pc = "idle") => result = "pending" /\ ~is_flushed

\* A later call stalls on the occupied slot with a response waiting.
C13_Witness ==
    /\ SinkNeverAccepted
    /\ pc = "flush" /\ ~is_flushed
    /\ result = "pending"
    /\ buf # <<>> /\ Len(outMsgs) = 1
    /\ in_flight > 0

(***************************************************************************)
(* C14: between two calls, out_body is some exactly when the most recent   *)
(* inbound head frame had body = true and no Body{none} was read after it. *)
(***************************************************************************)
\* Index of the most recent Message frame read, 0 if there is none.
LastHead ==
    LET S == {k \in 1..Len(inFrames) : IsMessage(inFrames[k])} IN
    IF S = {} THEN 0 ELSE CHOOSE k \in S : \A j \in S : j <= k

InboundBodyOpen ==
    /\ LastHead > 0
    /\ inFrames[LastHead].body
    /\ \A k \in (LastHead + 1)..Len(inFrames) : inFrames[k].kind # "BodyEnd"

\* As claimed: both directions, in every state between two calls.
C14_OutBodyIffBodyOpen ==
    pc = "idle" => (out_body.some <=> InboundBodyOpen)

\* Amended: out_body is some only while that body is open, and it is some
\* for an open body as long as the consumer keeps the receiver.
C14_OutBodyTracksOpenBody ==
    pc = "idle" =>
       /\ out_body.some => InboundBodyOpen /\ out_body.rx = Len(MessagesOf(inFrames))
       /\ (InboundBodyOpen /\ rx[Len(rx)].alive) => out_body.some

C14_Witness ==
    /\ pc = "idle"
    /\ eos
    /\ InboundBodyOpen
    /\ out_body.some
    /\ Len(inFrames) >= 2

(***************************************************************************)
(* C15: between two calls, in_body is some exactly when the most recent    *)
(* message taken from the collaborator was WithBody and its Body{none} has *)
(* not been emitted into the single slot yet.                              *)
(***************************************************************************)
OutboundBodyOpen ==
    /\ outMsgs # <<>>
    /\ Last(outMsgs).kind = "WithBody"
    /\ Last(emitted).kind # "BodyEnd"

C15_InBodyIffBodyOpen ==
    pc = "idle" =>
       /\ (in_body # None) <=> OutboundBodyOpen
       /\ in_body # None => in_body = Len(outMsgs)

C15_Witness ==
    /\ pc = "idle"
    /\ in_body # None
    /\ Len(outMsgs[in_body].chunks) >= 1
    /\ Last(emitted).kind = "Body"

(***************************************************************************)
(* C16: when the transport yields end-of-stream while an inbound body is   *)
(* open, the engine drops the out_body sender, so that the receiver of the *)
(* body can observe its end: once the call that read the end-of-stream has *)
(* returned, out_body is none.                                             *)
(***************************************************************************)
C16_SenderDroppedAtEos ==
    (eos /\ pc = "idle") => ~out_body.some

(***************************************************************************)
(* C17: a step of a call in which the transport yields nothing, the        *)
(* collaborator produces nothing, no body is open and the single slot is   *)
(* empty and flushed changes neither the engine state nor what was         *)
(* dispatched or emitted; the call then returns what is_done() says of     *)
(* that unchanged state, so a repeated call returns the same.              *)
(***************************************************************************)
Quiescent ==
    /\ in_body = None /\ ~out_body.some
    /\ buf = <<>> /\ is_flushed

NothingArrives ==
    /\ UNCHANGED <<inFrames, eos, outMsgs, reqNone>>
    /\ result' \notin Panics \cup {"IoError", "BrokenPipe"}

C17_NoOpCallIsIdempotent ==
    [][(Quiescent /\ NothingArrives) =>
          /\ UNCHANGED <<engine, sink, emitted, dispatched, in_flight>>
          /\ (pc = "flush" /\ pc' # "flush" =>
                 result' = IF is_done THEN "completed" ELSE "pending")]_vars

\* A second call in a row in which nothing happens is about to return.
C17_Witness ==
    /\ pc = "flush" /\ result = "pending"
    /\ Quiescent
    /\ inFrames = <<>> /\ ~eos /\ outMsgs = <<>> /\ ~reqNone
    /\ wire = <<>> /\ transport_open /\ request_sender_open

(***************************************************************************)
(* C18: under the fairness of the claim (the calls go on, the transport    *)
(* ends, the sink accepts, the collaborator answers, the body streams end) *)
(* the call returns completed, and by then every frame of every produced   *)
(* message, each body's Body{none} included, has been emitted.             *)
(***************************************************************************)
C18_CompletedAfterAllFramesEmitted ==
    result = "completed" =>
       /\ \A i \in 1..Len(outMsgs) :
             outMsgs[i].kind = "WithBody" => outMsgs[i].ended
       /\ emitted = Expansion(outMsgs)
       /\ wire = emitted

(***************************************************************************)
(* C20: when the call returns completed, every emitted frame has been      *)
(* handed to the transport sink and flushed: the single slot is empty, the *)
(* sink holds nothing unflushed, and is_flushed is the value the flush of  *)
(* that same call computed after the call's last emit.                     *)
(***************************************************************************)
C20_CompletedMeansFlushed ==
    /\ result = "completed" =>
          /\ buf = <<>> /\ ~sinkPending
          /\ wire = emitted
          /\ is_flushed
    /\ pc = "flush" => result # "completed"

C20_Witness ==
    /\ result = "completed"
    /\ Len(wire) >= 2
    /\ wire = emitted

(***************************************************************************)
(* C19: LiftService panics on a request with body without calling the      *)
(* wrapped service, calls it exactly once for a request without body, and  *)
(* every response is WithoutBody; so the engine driven through the adapter *)
(* never has in_body set, never enters write_in_body, and emits neither a  *)
(* Message frame with body = true nor a Body frame.                        *)
(***************************************************************************)
Dispatches == Len(dispatched') = Len(dispatched) + 1

C19_LiftedEngineHasNoBodies ==
    /\ [](in_body = None /\ pc # "in_body")
    /\ [](\A i \in 1..Len(outMsgs) : outMsgs[i].kind # "WithBody")
    /\ [](\A k \in 1..Len(emitted) :
             /\ emitted[k].kind \in {"Message", "Error"}
             /\ ~emitted[k].body)
    /\ [](\A i \in 1..Len(rx) : ~rx[i].alive)
    /\ [][(Dispatches /\ Last(dispatched').body) =>
             /\ result' = "panic_bodies" /\ pc' = "done"
             /\ in_flight' = in_flight]_vars
    /\ [][(Dispatches /\ ~Last(dispatched').body /\ result' # "IoError") =>
             /\ in_flight' = in_flight + 1
             /\ UNCHANGED result]_vars

C19_Witness ==
    /\ result = "panic_bodies"
    /\ Len(dispatched) >= 2
    /\ Len(emitted) >= 1
    /\ emitted[1].kind = "Message"

(***************************************************************************)
(* C21: a Message frame read while the previous inbound body is still open *)
(* does not fail the call: the previous sender is dropped with nothing     *)
(* left in its slot, the new message is dispatched, out_body is a fresh    *)
(* sender for body = true and none for body = false; the previous receiver *)
(* gets exactly the chunks read before that Message frame, then sees the   *)
(* end of the sequence, and no later chunk reaches it.                     *)
(***************************************************************************)
\* Receiver i belongs to a body that a later Message frame cut short.
Interrupted(i) ==
    /\ rx[i].body
    /\ i < Len(rx)
    /\ ~Terminated(dispatched[i].head)

C21_MessageDuringOpenBody ==
    /\ [][(ReadsFrame /\ IsMessage(Last(inFrames')) /\ InboundBodyOpen) =>
             LET frame == Last(inFrames')
                 old == Len(rx) IN
             /\ out_body.slot = <<>>
             /\ dispatched' = Append(dispatched, OutMessage(frame))
             /\ out_body' = IF frame.body THEN NewSender(Len(dispatched'))
                            ELSE NoSender
             /\ ~(out_body'.some /\ out_body'.rx = old)
             /\ rx'[old] = rx[old]
             /\ result' \in {result, "IoError"}
             /\ result' = result => pc' = "read"]_vars
    /\ [](\A i \in DOMAIN rx :
             (Interrupted(i) /\ rx[i].alive) =>
                LET j == dispatched[i].head IN
                /\ ~SenderAlive(i)
                /\ rx[i].got \o rx[i].chan = ChunksOf(j)
                /\ rx[i].ended => rx[i].got = ChunksOf(j))

\* The receiver of a body cut short by a Message frame, followed by a chunk
\* frame, has seen its one chunk and then the end of the sequence.
C21_Witness ==
    /\ Len(inFrames) >= 3
    /\ inFrames[1].kind = "Message" /\ inFrames[1].body
    /\ inFrames[2].kind = "Body"
    /\ inFrames[3].kind = "Message"
    /\ Interrupted(1)
    /\ rx[1].alive /\ rx[1].ended
    /\ rx[1].got = <<inFrames[2].val>>
====
